---- MODULE Spec2Model ----
(***************************************************************************)
(* A model of fetch_hustle.py: the schedule resolver (fetch_game_ids), the *)
(* hustle fetcher (fetch_hustle), the date processor (process_date) and    *)
(* the run controller (main).                                              *)
(*                                                                         *)
(* Text is modelled as a sequence of one-character strings, so that        *)
(* split, int, the f-strings, strptime and strftime are computed as the    *)
(* code computes them.  A Python dict is a function whose DOMAIN is its    *)
(* set of keys.  A JSON value whose type the code depends on carries a     *)
(* tag t ("obj", "list", "num", "str", "null").                            *)
(***************************************************************************)
EXTENDS Integers, Sequences, FiniteSets, TLC

(***************************************************************************)
(* Bounds of the model and constants of the program                        *)
(***************************************************************************)
\* the longest list of games of one schedule entry
MaxGames == 2
\* the longest rowSet of a result set
MaxRows == 2

MAX_RETRIES == 3
BACKOFF_UNIT == 3

(***************************************************************************)
(* Text                                                                    *)
(***************************************************************************)
Digits == <<"0", "1", "2", "3", "4", "5", "6", "7", "8", "9">>

IsDigit(c) == \E i \in 1..10 : Digits[i] = c

DigitVal(c) == (CHOOSE i \in 1..10 : Digits[i] = c) - 1

RECURSIVE IntToStr(_)
\* str(n) of an int n >= 0, as the f-string {int(m)} prints it
IntToStr(n) ==
    IF n < 10 THEN <<Digits[n + 1]>>
    ELSE IntToStr(n \div 10) \o <<Digits[(n % 10) + 1]>>

RECURSIVE ZeroPad(_, _)
\* strftime's zero padding to a width
ZeroPad(s, w) == IF Len(s) >= w THEN s ELSE ZeroPad(<<"0">> \o s, w)

\* int(s) accepts a non-empty run of decimal digits (leading zeros allowed)
IsInt(s) == Len(s) > 0 /\ \A i \in 1..Len(s) : IsDigit(s[i])

RECURSIVE ToInt(_)
ToInt(s) ==
    IF Len(s) = 0 THEN 0
    ELSE 10 * ToInt(SubSeq(s, 1, Len(s) - 1)) + DigitVal(s[Len(s)])

RECURSIVE Split(_, _)
\* s.split(sep) for a one-character separator
Split(s, sep) ==
    IF \E i \in 1..Len(s) : s[i] = sep
    THEN LET i == CHOOSE j \in 1..Len(s) :
                      s[j] = sep /\ \A k \in 1..(j - 1) : s[k] # sep
         IN  <<SubSeq(s, 1, i - 1)>> \o Split(SubSeq(s, i + 1, Len(s)), sep)
    ELSE <<s>>

Slash == <<"/">>
Dash == <<"-">>
Midnight12 == <<" ", "1", "2", ":", "0", "0", ":", "0", "0", " ", "A", "M">>
Midnight00 == <<" ", "0", "0", ":", "0", "0", ":", "0", "0">>

(***************************************************************************)
(* Calendar dates: datetime.strptime, timedelta(days=1), strftime          *)
(***************************************************************************)
IsLeap(y) == (y % 4 = 0 /\ y % 100 # 0) \/ y % 400 = 0

DaysInMonth(y, m) ==
    IF m = 2 THEN (IF IsLeap(y) THEN 29 ELSE 28)
    ELSE IF m \in {4, 6, 9, 11} THEN 30 ELSE 31

\* d + timedelta(days=1)
NextDay(dt) ==
    IF dt.d < DaysInMonth(dt.y, dt.m) THEN [dt EXCEPT !.d = dt.d + 1]
    ELSE IF dt.m < 12 THEN [dt EXCEPT !.m = dt.m + 1, !.d = 1]
    ELSE [y |-> dt.y + 1, m |-> 1, d |-> 1]

\* d <= end on datetimes
DateLeq(a, b) ==
    \/ a.y < b.y
    \/ a.y = b.y /\ a.m < b.m
    \/ a.y = b.y /\ a.m = b.m /\ a.d <= b.d

\* datetime.strptime(s, '%Y-%m-%d') succeeds: %Y is four digits, %m and %d one or
\* two digits naming a month and a day of that month
StrptimeOk(s) ==
    LET p == Split(s, "-") IN
    /\ Len(p) = 3
    /\ IsInt(p[1]) /\ Len(p[1]) = 4
    /\ IsInt(p[2]) /\ Len(p[2]) \in {1, 2}
    /\ IsInt(p[3]) /\ Len(p[3]) \in {1, 2}
    /\ ToInt(p[2]) \in 1..12
    /\ ToInt(p[3]) \in 1..DaysInMonth(ToInt(p[1]), ToInt(p[2]))

Strptime(s) ==
    LET p == Split(s, "-") IN [y |-> ToInt(p[1]), m |-> ToInt(p[2]), d |-> ToInt(p[3])]

\* d.strftime('%Y-%m-%d')
Strftime(dt) ==
    ZeroPad(IntToStr(dt.y), 4) \o Dash \o ZeroPad(IntToStr(dt.m), 2)
        \o Dash \o ZeroPad(IntToStr(dt.d), 2)

(***************************************************************************)
(* Python values                                                           *)
(***************************************************************************)
\* dict.get(k, default)
Get(obj, k, default) == IF k \in DOMAIN obj THEN obj[k] ELSE default

Num(n) == [t |-> "num", v |-> n]
Str(s) == [t |-> "str", v |-> s]
Null == [t |-> "null"]
Obj(dict) == [t |-> "obj", v |-> dict]
\* a JSON document that is no object: the code reads nothing of a list but its type
JList == [t |-> "list"]

\* the outcome of a call: a returned value or a raised exception
Return(val) == [kind |-> "return", value |-> val]
Raise(e) == [kind |-> "raise", exc |-> e]

(***************************************************************************)
(* Schedule Resolver: fetch_game_ids                                       *)
(***************************************************************************)
\* the three strings a gameDate is compared with
Targets(y, m, d) ==
    { IntToStr(ToInt(m)) \o Slash \o IntToStr(ToInt(d)) \o Slash \o y,
      m \o Slash \o d \o Slash \o y,
      IntToStr(ToInt(m)) \o Slash \o IntToStr(ToInt(d)) \o Slash \o y \o Midnight12 }

\* gd_date in targets or gd.get('gameDate') in targets
DateMatches(gd, targets) ==
    /\ "gameDate" \in DOMAIN gd
    /\ \/ Split(gd.gameDate, " ")[1] \in targets
       \/ gd.gameDate \in targets

\* status >= 2
Qualifies(status) == status.v >= 2

RECURSIVE ScanGames(_, _)
\* the loop over the games of the matched entry, from the ids collected so far
ScanGames(games, ids) ==
    IF games = <<>> THEN Return(ids)
    ELSE LET g == Head(games)
             status == Get(g, "gameStatus", Num(0))
         IN  IF status.t # "num" THEN Raise("TypeError")
             ELSE IF Qualifies(status)
             THEN IF "gameId" \in DOMAIN g
                  THEN ScanGames(Tail(games), Append(ids, g.gameId))
                  ELSE Raise("KeyError")
             ELSE ScanGames(Tail(games), ids)

RECURSIVE ScanGameDates(_, _)
\* the loop over gameDates: the first matching entry is scanned, then break
ScanGameDates(gds, targets) ==
    IF gds = <<>> THEN Return(<<>>)
    ELSE IF DateMatches(Head(gds), targets)
         THEN ScanGames(Get(Head(gds), "games", <<>>), <<>>)
         ELSE ScanGameDates(Tail(gds), targets)

\* fetch_game_ids(date_str) when the schedule request is answered by resp
FetchGameIds(resp, date_str) ==
    IF resp.kind # "json" THEN Return(<<>>)
    ELSE LET p == Split(date_str, "-") IN
         IF Len(p) # 3 THEN Raise("ValueError")
         ELSE IF ~(IsInt(p[2]) /\ IsInt(p[3])) THEN Raise("ValueError")
         ELSE IF resp.data.t # "obj" THEN Raise("AttributeError")
         ELSE \* data.get('leagueSchedule', {}).get('gameDates', []): the default
              \* {} has no gameDates, written here as a dict whose gameDates is []
              ScanGameDates(
                  Get(Get(resp.data.v, "leagueSchedule", [gameDates |-> <<>>]),
                      "gameDates", <<>>),
                  Targets(p[1], p[2], p[3]))

(***************************************************************************)
(* Hustle Fetcher: the extraction of fetch_hustle                          *)
(***************************************************************************)
Min(a, b) == IF a <= b THEN a ELSE b

\* dict(zip(headers, row)): zip stops at the shorter, a repeated header keeps
\* its last value
ZipDict(headers, row) ==
    LET n == Min(Len(headers), Len(row)) IN
    [k \in {headers[i] : i \in 1..n} |->
        row[CHOOSE i \in 1..n :
                headers[i] = k /\ \A j \in (i + 1)..n : headers[j] # k]]

\* the record appended for one row
PlayerRecord(obj, game_id) ==
    [personId       |-> Get(obj, "PLAYER_ID", Null),
     name           |-> Get(obj, "PLAYER_NAME", Str("")),
     team           |-> Get(obj, "TEAM_ABBREVIATION", Str("")),
     gameId         |-> game_id,
     minutes        |-> Get(obj, "MIN", Num(0)),
     deflections    |-> Get(obj, "DEFLECTIONS", Num(0)),
     looseBalls     |-> Get(obj, "LOOSE_BALLS_RECOVERED", Num(0)),
     contested2     |-> Get(obj, "CONTESTED_SHOTS_2PT", Num(0)),
     contested3     |-> Get(obj, "CONTESTED_SHOTS_3PT", Num(0)),
     contestedTotal |-> Get(obj, "CONTESTED_SHOTS", Num(0)),
     charges        |-> Get(obj, "CHARGES_DRAWN", Num(0)),
     screenAst      |-> Get(obj, "SCREEN_ASSISTS", Num(0)),
     boxOuts        |-> Get(obj, "BOX_OUTS", Num(0)),
     boxOutsOff     |-> Get(obj, "OFF_BOXOUTS", Num(0)),
     boxOutsDef     |-> Get(obj, "DEF_BOXOUTS", Num(0))]

RowRecords_FirstRowOnly(headers, rowSet, game_id) ==
    [i \in 1..Min(1, Len(rowSet)) |-> PlayerRecord(ZipDict(headers, rowSet[i]), game_id)]

\* the rows of one PlayerStats result set, as records
RowRecords(headers, rowSet, game_id) ==
    [i \in 1..Len(rowSet) |-> PlayerRecord(ZipDict(headers, rowSet[i]), game_id)]

RECURSIVE ScanResultSets(_, _, _)
\* the loop over data.get('resultSets', []), from the players collected so far
ScanResultSets(rss, players, game_id) ==
    IF rss = <<>> THEN Return(players)
    ELSE LET rs == Head(rss) IN
         IF "name" \notin DOMAIN rs THEN Raise("KeyError")
         ELSE IF rs.name # "PlayerStats"
              THEN ScanResultSets(Tail(rss), players, game_id)
         ELSE IF "headers" \notin DOMAIN rs THEN Raise("KeyError")
         ELSE IF "rowSet" \notin DOMAIN rs THEN Raise("KeyError")
         ELSE ScanResultSets(Tail(rss),
                  players \o RowRecords(rs.headers, rs.rowSet, game_id), game_id)

\* lines 106-131: the players of a parsed body
ExtractPlayers(data, game_id) ==
    IF data.t # "obj" THEN Raise("AttributeError")
    ELSE ScanResultSets(Get(data.v, "resultSets", <<>>), <<>>, game_id)

(***************************************************************************)
(* The inputs the model draws from                                         *)
(***************************************************************************)
BoundedSeq(S, n) == UNION {[1..k -> S] : k \in 0..n}

\* the dates the command line and the schedule speak of: the end of a month
FirstDate == [y |-> 2026, m |-> 2, d |-> 28]
LastDate == NextDay(FirstDate)

Window == {FirstDate, LastDate}

\* YYYY-M-D without zero padding: strptime accepts it too
Unpadded(dt) == IntToStr(dt.y) \o Dash \o IntToStr(dt.m) \o Dash \o IntToStr(dt.d)

\* a command-line argument: a date of the window, padded or not, a date no
\* calendar has, or a word
NoSuchDay == Strftime([y |-> 2026, m |-> 2, d |-> 30])
Word == <<"t", "o", "d", "a", "y">>

ArgStrings ==
    {Strftime(dt) : dt \in Window} \cup {Unpadded(dt) : dt \in Window}
        \cup {NoSuchDay, Word}

\* the command lines of a whole run: none, one or two arguments, or three
ArgvSet ==
    {<<>>} \cup {<<a>> : a \in ArgStrings}
        \cup {<<Strftime(a), Strftime(b)>> : a \in Window, b \in Window}
        \cup {<<Unpadded(FirstDate), Strftime(LastDate)>>,
              <<NoSuchDay, Strftime(LastDate)>>, <<Strftime(FirstDate), Word>>,
              <<Strftime(FirstDate), Strftime(FirstDate), Strftime(FirstDate)>>}

\* the ways the schedule source writes the date of an entry
USDate(dt) == IntToStr(dt.m) \o Slash \o IntToStr(dt.d) \o Slash \o IntToStr(dt.y)
USDatePadded(dt) ==
    ZeroPad(IntToStr(dt.m), 2) \o Slash \o ZeroPad(IntToStr(dt.d), 2)
        \o Slash \o IntToStr(dt.y)
GameDateForms(dt) ==
    {USDate(dt), USDatePadded(dt) \o Midnight00, USDate(dt) \o Midnight12, Strftime(dt)}

GameIds == {"G1", "G2"}

\* a game of the schedule: a status below 2, at least 2, of another type or
\* absent, an identifier present or absent
Games ==
    {[gameId |-> "G1", gameStatus |-> Num(3)], [gameId |-> "G2", gameStatus |-> Num(2)],
     [gameId |-> "G1", gameStatus |-> Num(1)], [gameId |-> "G2", gameStatus |-> Str("Final")],
     [gameId |-> "G1", gameStatus |-> Null], [gameId |-> "G2"],
     [gameStatus |-> Num(3)], [gameStatus |-> Num(1)]}

Entries ==
    [gameDate : UNION {GameDateForms(dt) : dt \in Window},
     games : BoundedSeq(Games, MaxGames)]
        \cup [games : {<<[gameId |-> "G1", gameStatus |-> Num(3)]>>}]

\* entries that differ in their date only
PlainEntries ==
    [gameDate : {USDatePadded(dt) \o Midnight00 : dt \in Window},
     games : {<<[gameId |-> "G2", gameStatus |-> Num(2)]>>}]

GameDateLists ==
    {<<>>} \cup {<<e>> : e \in Entries}
        \cup {<<e1, e2>> : e1 \in PlainEntries, e2 \in Entries}
        \cup {<<e1, e2>> : e1 \in Entries, e2 \in PlainEntries}

ScheduleFailures == {[kind |-> "transport"], [kind |-> "http_error"], [kind |-> "bad_json"]}

SchedulePayload(gds) ==
    [kind |-> "json", data |-> Obj([leagueSchedule |-> [gameDates |-> gds]])]

\* every answer to the schedule request the model knows
ScheduleResponses ==
    ScheduleFailures
        \cup {[kind |-> "json", data |-> JList],
              [kind |-> "json", data |-> Obj([meta |-> Null])],
              [kind |-> "json", data |-> Obj([leagueSchedule |-> [seasonYear |-> Null]])]}
        \cup {SchedulePayload(gds) : gds \in GameDateLists}

\* the answers drawn in a whole run: one entry, in the source's own date format
RunGames ==
    {[gameId |-> "G1", gameStatus |-> Num(3)], [gameId |-> "G2", gameStatus |-> Num(2)],
     [gameId |-> "G1", gameStatus |-> Num(1)], [gameStatus |-> Num(3)],
     [gameId |-> "G2", gameStatus |-> Str("Final")]}

RunScheduleResponses ==
    ScheduleFailures \cup {[kind |-> "json", data |-> JList]}
        \cup {SchedulePayload(<<[gameDate |-> USDatePadded(dt) \o Midnight00, games |-> gs]>>) :
                  dt \in Window, gs \in BoundedSeq(RunGames, MaxGames)}

\* the table a player row is read against
Columns ==
    <<"PLAYER_ID", "PLAYER_NAME", "TEAM_ABBREVIATION", "MIN", "DEFLECTIONS",
      "LOOSE_BALLS_RECOVERED", "CONTESTED_SHOTS_2PT", "CONTESTED_SHOTS_3PT",
      "CONTESTED_SHOTS", "CHARGES_DRAWN", "SCREEN_ASSISTS", "BOX_OUTS",
      "OFF_BOXOUTS", "DEF_BOXOUTS">>

HeaderLists ==
    {Columns, <<"PLAYER_ID", "PLAYER_NAME", "DEFLECTIONS">>,
     <<"GAME_ID", "PLAYER_NAME", "MIN", "CHARGES_DRAWN">>, <<>>}

PlayerNames == <<"Ann", "Bob", "Cy">>

\* the cell of row r under a column
Cell(col, r) ==
    CASE col = "PLAYER_ID" -> Num(200 + r)
      [] col = "PLAYER_NAME" ->
            Str(IF r <= Len(PlayerNames) THEN PlayerNames[r] ELSE "Zed")
      [] col = "TEAM_ABBREVIATION" -> Str("BOS")
      [] col = "MIN" -> Str("12:30")
      [] col = "GAME_ID" -> Str("0022500001")
      [] OTHER -> Num(r)

Row(h, r) == [i \in 1..Len(h) |-> Cell(h[i], r)]

\* a row that stops before its last column
ShortRow(h, r) == SubSeq(Row(h, r), 1, Len(h) - 1)

RowSets(h) ==
    {[r \in 1..k |-> Row(h, r)] : k \in 0..MaxRows}
        \cup {[r \in 1..k |-> ShortRow(h, r)] : k \in 1..MaxRows}

\* a result set: any of its three keys may be absent
ResultSets ==
    UNION {[name : {"PlayerStats", "TeamStats"}, headers : {h}, rowSet : RowSets(h)] :
               h \in HeaderLists}
        \cup UNION {[headers : {h}, rowSet : RowSets(h)] : h \in {Columns}}
        \cup [name : {"PlayerStats"}, headers : {Columns}]
        \cup [name : {"PlayerStats", "TeamStats"}, rowSet : {<<Row(Columns, 1)>>}]

HustleFailures ==
    {[kind |-> "status"], [kind |-> "timeout"], [kind |-> "exception"],
     [kind |-> "bad_json"]}

HustleBody(rss) == [kind |-> "json", data |-> Obj([resultSets |-> rss])]

\* every answer to the per-game request the model knows
HustleResponses ==
    HustleFailures
        \cup {[kind |-> "json", data |-> JList], [kind |-> "json", data |-> Null],
              [kind |-> "json", data |-> Obj([message |-> Null])]}
        \cup {HustleBody(rss) : rss \in BoundedSeq(ResultSets, 2)}

\* the answers drawn in a whole run: two failures, a body that is no object, a
\* result set without a name, a body without player statistics, and a body
\* with MaxRows players
RunHustleResponses ==
    {[kind |-> "status"], [kind |-> "timeout"]}
        \cup {[kind |-> "json", data |-> JList],
              HustleBody(<<[headers |-> Columns, rowSet |-> <<Row(Columns, 1)>>]>>),
              HustleBody(<<[name |-> "TeamStats", headers |-> <<>>, rowSet |-> <<>>]>>),
              HustleBody(<<[name |-> "TeamStats", headers |-> <<>>, rowSet |-> <<>>],
                           [name |-> "PlayerStats", headers |-> Columns,
                            rowSet |-> [r \in 1..MaxRows |-> Row(Columns, r)]]>>)}

(***************************************************************************)
(* State                                                                   *)
(***************************************************************************)
VARIABLES
    unit,         \* what runs: "main", or fetch_hustle / fetch_game_ids called alone
    argv,         \* sys.argv[1:]
    pc,           \* the statement the program is at
    dates,        \* main: the dates to process
    di,           \* main: how many dates the loop has taken
    success,      \* main: the tally
    exit_status,  \* the exit status of the process, -1 while it runs
    exc,          \* the exception that ended the run, "none" otherwise
    date_str,     \* process_date / fetch_game_ids: the date
    game_ids,     \* process_date: the resolver's identifiers
    gi,           \* process_date: how many identifiers the loop has taken
    game_id,      \* fetch_hustle: the identifier
    all_players,  \* process_date: the accumulator
    attempt,      \* fetch_hustle: the attempt number
    data,         \* fetch_hustle: the parsed body
    files,        \* the files of OUTPUT_DIR
    dir_exists,   \* whether OUTPUT_DIR exists
    \* what happened so far, kept for the properties
    sched,        \* the answer to the last schedule request
    ids_res,      \* the outcome of the last fetch_game_ids call
    pd_calls,     \* the dates process_date was called with, in order
    pd_rets,      \* the outcome of each of these calls: "true", "false", "raised"
    fh_calls,     \* the identifiers fetch_hustle was called with for this date
    fh_rets,      \* the outcome of each fetch_hustle call that has ended, for this date
    fh_log,       \* the answers to the requests of the current fetch_hustle call
    waits,        \* the backoff waits of the current fetch_hustle call
    pd_wrote,     \* whether the current process_date call wrote its file
    unslept,      \* the network requests issued since the last time.sleep
    \* process_date called twice for one date against the same upstream
    run,          \* which of the two calls runs: 1 or 2, 0 otherwise
    tape,         \* the answers the first call got that the second has yet to get
    first         \* what the first call returned and left on disk

vars ==
    <<unit, argv, pc, dates, di, success, exit_status, exc, date_str, game_ids, gi,
      game_id, all_players, attempt, data, files, dir_exists, sched, ids_res,
      pd_calls, pd_rets, fh_calls, fh_rets, fh_log, waits, pd_wrote, unslept,
      run, tape, first>>

mainVars == <<dates, di, success>>
dateVars == <<date_str, game_ids, gi, all_players>>
fetchVars == <<game_id, attempt, data, fh_log, waits>>
diskVars == <<files, dir_exists, pd_wrote>>
resolveVars == <<sched, ids_res>>
replayVars == <<run, tape, first>>

NoOutcome == [kind |-> "none"]

\* os.path.join(OUTPUT_DIR, f'hustle_{date_str}.json'), relative to OUTPUT_DIR
FilePath(ds) == <<"hustle_">> \o ds \o <<".json">>

DateResult_GamesWithRecords(ds, ids, players) ==
    [date |-> ds, games |-> Cardinality({players[i].gameId : i \in 1..Len(players)}),
     players |-> players]

\* the document json.dump writes
DateResult(ds, ids, players) == [date |-> ds, games |-> Len(ids), players |-> players]

WriteFile_Append(fs, path, doc) ==
    {f \in fs : f.path # path}
        \cup {[path |-> path,
               content |-> IF \E f \in fs : f.path = path
                           THEN [doc EXCEPT !.players =
                                    (CHOOSE f \in fs : f.path = path).content.players \o @]
                           ELSE doc]}

\* open(filepath, 'w') and json.dump: the file of that path is replaced
WriteFile(fs, path, doc) ==
    {f \in fs : f.path # path} \cup {[path |-> path, content |-> doc]}

\* a file an earlier run left for the first date of the window
StaleFile ==
    [path |-> FilePath(Strftime(FirstDate)),
     content |-> DateResult(Strftime(FirstDate), <<"G0">>,
                            <<PlayerRecord(ZipDict(<<"PLAYER_ID">>, <<Num(7)>>), "G0")>>)]

\* the dates of a range: lines 175-181
RECURSIVE DateRange(_, _)
DateRange(d, end) ==
    IF DateLeq(d, end) THEN <<Strftime(d)>> \o DateRange(NextDay(d), end) ELSE <<>>

InitCommon ==
    /\ dates = <<>> /\ di = 0 /\ success = 0
    /\ exit_status = -1 /\ exc = "none"
    /\ game_ids = <<>> /\ gi = 0 /\ all_players = <<>>
    /\ data = Null
    /\ sched = NoOutcome /\ ids_res = NoOutcome
    /\ pd_rets = <<>>
    /\ fh_rets = <<>> /\ fh_log = <<>> /\ waits = <<>>
    /\ pd_wrote = FALSE
    /\ unslept = 0
    /\ tape = <<>> /\ first = NoOutcome

\* the program is started with some command line, over an output directory that
\* is absent or holds the file of an earlier run
Init ==
    /\ unit = "main"
    /\ argv \in ArgvSet
    /\ pc = "args"
    /\ date_str = <<>> /\ game_id = "" /\ attempt = 0
    /\ fh_calls = <<>> /\ pd_calls = <<>> /\ run = 0
    /\ \/ dir_exists = FALSE /\ files = {}
       \/ dir_exists = TRUE /\ files = {StaleFile}
    /\ InitCommon

\* process_date runs, called by main or twice in a row
InProcessDate == unit \in {"main", "twice"}

\* the upstream of a request: of the answers S any, but to the second of two
\* calls what the first call got at the same place
Upstream(S) == IF unit = "twice" /\ run = 2 /\ tape # <<>> THEN {Head(tape)} ELSE S

\* the first call records the answer it got, the second has got it again
Played(t, resp) ==
    IF unit # "twice" THEN t
    ELSE IF run = 1 THEN Append(t, resp)
    ELSE IF t # <<>> THEN Tail(t) ELSE t

(***************************************************************************)
(* Run Controller: main                                                    *)
(***************************************************************************)
\* lines 170-187: the dates of the command line.  No argument: today, eight
\* hours behind UTC, whatever the clock says.  More than two: the usage exit.
\* strptime raises ValueError on a range argument that is no date.
Main_ParseArgs ==
    /\ pc = "args"
    /\ \/ /\ Len(argv) = 0
          /\ \E today \in Window : dates' = <<Strftime(today)>>
          /\ pc' = "loop"
          /\ UNCHANGED <<exit_status, exc>>
       \/ /\ Len(argv) = 1
          /\ dates' = <<argv[1]>>
          /\ pc' = "loop"
          /\ UNCHANGED <<exit_status, exc>>
       \/ /\ Len(argv) = 2
          /\ StrptimeOk(argv[1]) /\ StrptimeOk(argv[2])
          /\ dates' = DateRange(Strptime(argv[1]), Strptime(argv[2]))
          /\ pc' = "loop"
          /\ UNCHANGED <<exit_status, exc>>
       \/ /\ Len(argv) = 2
          /\ ~(StrptimeOk(argv[1]) /\ StrptimeOk(argv[2]))
          /\ exc' = "ValueError" /\ exit_status' = 1 /\ pc' = "exit"
          /\ UNCHANGED dates
       \/ /\ Len(argv) > 2
          /\ exit_status' = 1 /\ pc' = "exit"
          /\ UNCHANGED <<dates, exc>>
    /\ UNCHANGED <<replayVars, unit, argv, di, success, dateVars, fetchVars, diskVars, resolveVars,
                   pd_calls, pd_rets, fh_calls, fh_rets, unslept>>

\* lines 190-191: the loop takes the next date and calls process_date
Main_NextDate ==
    /\ pc = "loop"
    /\ di < Len(dates)
    /\ di' = di + 1
    /\ date_str' = dates[di + 1]
    /\ pd_calls' = Append(pd_calls, dates[di + 1])
    /\ game_ids' = <<>> /\ gi' = 0 /\ all_players' = <<>>
    /\ fh_calls' = <<>> /\ fh_rets' = <<>> /\ fh_log' = <<>> /\ waits' = <<>>
    /\ pd_wrote' = FALSE
    /\ ids_res' = NoOutcome
    /\ pc' = "resolve"
    /\ UNCHANGED <<replayVars, unit, argv, dates, success, exit_status, exc, game_id, attempt, data,
                   files, dir_exists, sched, pd_rets, unslept>>

\* lines 193-194: the sleep after a date of a run over several dates
Main_DateSleep ==
    /\ pc = "date_sleep"
    /\ unslept' = 0
    /\ pc' = "loop"
    /\ UNCHANGED <<replayVars, unit, argv, mainVars, exit_status, exc, dateVars, fetchVars, diskVars,
                   resolveVars, pd_calls, pd_rets, fh_calls, fh_rets>>

\* lines 196-198: the tally and the exit status
ExitStatus(n_success, ds) == IF n_success = 0 /\ ds # <<>> THEN 1 ELSE 0

Main_Tally ==
    /\ pc = "loop"
    /\ di = Len(dates)
    /\ exit_status' = ExitStatus(success, dates)
    /\ pc' = "exit"
    /\ UNCHANGED <<replayVars, unit, argv, mainVars, exc, dateVars, fetchVars, diskVars, resolveVars,
                   pd_calls, pd_rets, fh_calls, fh_rets, unslept>>

(***************************************************************************)
(* Date Processor: process_date                                            *)
(***************************************************************************)
AfterDate_NoSleep(ds) == "loop"

\* where main goes on once process_date has returned: lines 191-194
AfterDate(ds) == IF Len(ds) > 1 THEN "date_sleep" ELSE "loop"

\* lines 140-143: the schedule request and fetch_game_ids, then the test of its
\* result.  An exception of fetch_game_ids is caught nowhere: it ends the run.
PD_Resolve(Resps) ==
    /\ pc = "resolve"
    /\ unslept' = unslept + 1
    /\ \E resp \in Resps :
         LET r == FetchGameIds(resp, date_str) IN
         /\ tape' = Played(tape, resp)
         /\ ids_res' = r
         /\ \/ /\ r.kind = "raise"
               /\ exc' = r.exc /\ exit_status' = 1 /\ pc' = "exit"
               /\ pd_rets' = Append(pd_rets, "raised")
               /\ UNCHANGED <<game_ids, success>>
            \/ /\ r.kind = "return" /\ r.value = <<>>
               /\ pd_rets' = Append(pd_rets, "false")
               /\ pc' = AfterDate(dates)
               /\ UNCHANGED <<game_ids, success, exc, exit_status>>
            \/ /\ r.kind = "return" /\ r.value # <<>>
               /\ game_ids' = r.value
               /\ pc' = "pace"
               /\ UNCHANGED <<pd_rets, success, exc, exit_status>>
    /\ UNCHANGED <<run, first, unit, argv, dates, di, date_str, gi, all_players, fetchVars, diskVars,
                   sched, pd_calls, fh_calls, fh_rets>>

\* lines 146-148: the loop takes the next identifier, sleeps SLEEP seconds and
\* calls fetch_hustle, which starts its first attempt
PD_Pace ==
    /\ pc = "pace"
    /\ gi < Len(game_ids)
    /\ gi' = gi + 1
    /\ game_id' = game_ids[gi + 1]
    /\ fh_calls' = Append(fh_calls, game_ids[gi + 1])
    /\ attempt' = 1
    /\ fh_log' = <<>> /\ waits' = <<>>
    /\ unslept' = 0
    /\ pc' = "request"
    /\ UNCHANGED <<replayVars, unit, argv, mainVars, exit_status, exc, date_str, game_ids, all_players,
                   data, diskVars, resolveVars, pd_calls, pd_rets, fh_rets>>

PD_Save_OpensFirst ==
    /\ pc = "save"
    /\ dir_exists' = TRUE
    /\ \/ /\ all_players = <<>>
          /\ files' = {f \in files : f.path # FilePath(date_str)}
          /\ pd_rets' = Append(pd_rets, "false")
          /\ UNCHANGED <<success, pd_wrote>>
       \/ /\ all_players # <<>>
          /\ files' = WriteFile(files, FilePath(date_str),
                                DateResult(date_str, game_ids, all_players))
          /\ pd_wrote' = TRUE
          /\ pd_rets' = Append(pd_rets, "true")
          /\ success' = success + 1
    /\ pc' = AfterDate(dates)
    /\ game_id' = "" /\ attempt' = 0 /\ data' = Null /\ fh_log' = <<>> /\ waits' = <<>>
    /\ UNCHANGED <<replayVars, unit, argv, dates, di, exit_status, exc, dateVars, resolveVars,
                   pd_calls, fh_calls, fh_rets, unslept>>

\* lines 151-166: nothing accumulated: False, nothing written; otherwise the
\* directory is made, the file of the date written, and True returned
PD_Save ==
    /\ pc = "save"
    /\ \/ /\ all_players = <<>>
          /\ pd_rets' = Append(pd_rets, "false")
          /\ UNCHANGED <<success, files, dir_exists, pd_wrote>>
       \/ /\ all_players # <<>>
          /\ dir_exists' = TRUE
          /\ files' = WriteFile(files, FilePath(date_str),
                                DateResult(date_str, game_ids, all_players))
          /\ pd_wrote' = TRUE
          /\ pd_rets' = Append(pd_rets, "true")
          /\ success' = success + 1
    /\ pc' = AfterDate(dates)
    \* the locals of the last fetch_hustle call are gone
    /\ game_id' = "" /\ attempt' = 0 /\ data' = Null /\ fh_log' = <<>> /\ waits' = <<>>
    /\ UNCHANGED <<replayVars, unit, argv, dates, di, exit_status, exc, dateVars, resolveVars,
                   pd_calls, fh_calls, fh_rets, unslept>>

(***************************************************************************)
(* Hustle Fetcher: fetch_hustle                                            *)
(***************************************************************************)
\* where the caller goes on once fetch_hustle has returned: line 149 and the
\* loop test of line 146
AfterFetch == IF InProcessDate THEN (IF gi < Len(game_ids) THEN "pace" ELSE "save") ELSE "exit"

MAX_RETRIES_OneMore == MAX_RETRIES + 1

\* range(1, MAX_RETRIES + 1): the last attempt number
LastAttempt == MAX_RETRIES

FH_Request_BadJsonEnds(Resps) ==
    /\ pc = "request"
    /\ unslept' = unslept + 1
    /\ \E resp \in Resps :
         /\ fh_log' = Append(fh_log, resp.kind)
         /\ tape' = Played(tape, resp)
         /\ \/ /\ resp.kind = "json"
               /\ data' = resp.data
               /\ pc' = "extract"
               /\ UNCHANGED fh_rets
            \/ /\ resp.kind \notin {"json", "bad_json"}
               /\ attempt < LastAttempt
               /\ pc' = "backoff"
               /\ UNCHANGED <<data, fh_rets>>
            \/ /\ resp.kind # "json"
               /\ resp.kind = "bad_json" \/ ~(attempt < LastAttempt)
               /\ fh_rets' = Append(fh_rets, Return(<<>>))
               /\ pc' = AfterFetch
               /\ UNCHANGED data
    /\ UNCHANGED <<run, first, unit, argv, mainVars, exit_status, exc, dateVars, game_id, attempt,
                   waits, diskVars, resolveVars, pd_calls, pd_rets, fh_calls>>

\* lines 87-104: one attempt.  Status 200 with a body that parses leaves the
\* loop; anything else is a failed attempt, followed by a backoff while
\* attempts remain and by return [] after the last.
FH_Request(Resps) ==
    /\ pc = "request"
    /\ unslept' = unslept + 1
    /\ \E resp \in Resps :
         /\ fh_log' = Append(fh_log, resp.kind)
         /\ tape' = Played(tape, resp)
         /\ \/ /\ resp.kind = "json"
               /\ data' = resp.data
               /\ pc' = "extract"
               /\ UNCHANGED fh_rets
            \/ /\ resp.kind # "json"
               /\ attempt < LastAttempt
               /\ pc' = "backoff"
               /\ UNCHANGED <<data, fh_rets>>
            \/ /\ resp.kind # "json"
               /\ ~(attempt < LastAttempt)
               /\ fh_rets' = Append(fh_rets, Return(<<>>))
               /\ pc' = AfterFetch
               /\ UNCHANGED data
    /\ UNCHANGED <<run, first, unit, argv, mainVars, exit_status, exc, dateVars, game_id, attempt,
                   waits, diskVars, resolveVars, pd_calls, pd_rets, fh_calls>>

Wait_Fixed(k) == BACKOFF_UNIT

\* line 99: wait = 3 * attempt
Wait(k) == BACKOFF_UNIT * k

\* lines 98-101: the wait before the next attempt
FH_Backoff ==
    /\ pc = "backoff"
    /\ waits' = Append(waits, Wait(attempt))
    /\ attempt' = attempt + 1
    /\ unslept' = 0
    /\ pc' = "request"
    /\ UNCHANGED <<replayVars, unit, argv, mainVars, exit_status, exc, dateVars, game_id, data, fh_log,
                   diskVars, resolveVars, pd_calls, pd_rets, fh_calls, fh_rets>>

Extend_AtFront(acc, players) == players \o acc

\* line 149: all_players.extend(players)
Extend(acc, players) == acc \o players

\* lines 106-131, and line 149 of the caller: the players of the body are
\* returned and appended to the accumulator.  An exception of the extraction
\* is caught nowhere: it ends the run.
FH_Extract ==
    /\ pc = "extract"
    /\ LET r == ExtractPlayers(data, game_id) IN
       \/ /\ r.kind = "raise"
          /\ fh_rets' = Append(fh_rets, r)
          /\ exc' = r.exc /\ pc' = "exit"
          /\ exit_status' = IF InProcessDate THEN 1 ELSE exit_status
          /\ pd_rets' = IF InProcessDate THEN Append(pd_rets, "raised") ELSE pd_rets
          /\ UNCHANGED all_players
       \/ /\ r.kind = "return"
          /\ fh_rets' = Append(fh_rets, r)
          /\ all_players' = IF InProcessDate THEN Extend(all_players, r.value) ELSE all_players
          /\ pc' = AfterFetch
          /\ UNCHANGED <<exc, exit_status, pd_rets>>
    /\ UNCHANGED <<replayVars, unit, argv, mainVars, date_str, game_ids, gi, fetchVars, diskVars,
                   resolveVars, pd_calls, fh_calls, unslept>>

(***************************************************************************)
(* The program                                                             *)
(***************************************************************************)
Next ==
    \/ Main_ParseArgs
    \/ Main_NextDate
    \/ Main_DateSleep
    \/ Main_Tally
    \/ PD_Resolve(RunScheduleResponses)
    \/ PD_Pace
    \/ PD_Save
    \/ FH_Request(RunHustleResponses)
    \/ FH_Backoff
    \/ FH_Extract

Spec == Init /\ [][Next]_vars

(***************************************************************************)
(* fetch_hustle called alone, for one identifier, with every answer the    *)
(* model knows                                                             *)
(***************************************************************************)
InitFetch ==
    /\ unit = "fetch_hustle"
    /\ argv = <<>>
    /\ pc = "request"
    /\ date_str = <<>>
    /\ game_id \in GameIds
    /\ fh_calls = <<game_id>> /\ pd_calls = <<>> /\ run = 0
    /\ attempt = 1
    /\ dir_exists = FALSE /\ files = {}
    /\ InitCommon

NextFetch ==
    \/ FH_Request(HustleResponses)
    \/ FH_Backoff
    \/ FH_Extract

SpecFetch == InitFetch /\ [][NextFetch]_vars

(***************************************************************************)
(* fetch_game_ids called alone, for one date string, with every answer the *)
(* model knows                                                             *)
(***************************************************************************)
InitResolve ==
    /\ unit = "fetch_game_ids"
    /\ argv = <<>>
    /\ pc = "resolve"
    /\ date_str \in ArgStrings
    /\ game_id = ""
    /\ fh_calls = <<>> /\ pd_calls = <<>> /\ run = 0
    /\ attempt = 0
    /\ dir_exists = FALSE /\ files = {}
    /\ InitCommon

\* lines 43-76: the whole of fetch_game_ids
FN_Resolve(Resps) ==
    /\ pc = "resolve"
    /\ unslept' = unslept + 1
    /\ \E resp \in Resps :
         LET r == FetchGameIds(resp, date_str) IN
         /\ sched' = resp
         /\ ids_res' = r
         /\ exc' = IF r.kind = "raise" THEN r.exc ELSE exc
    /\ pc' = "exit"
    /\ UNCHANGED <<replayVars, unit, argv, mainVars, exit_status, dateVars, fetchVars, diskVars,
                   pd_calls, pd_rets, fh_calls, fh_rets>>

NextResolve == FN_Resolve(ScheduleResponses)

SpecResolve == InitResolve /\ [][NextResolve]_vars

(***************************************************************************)
(* process_date called twice in a row for one date, the upstream answering *)
(* the second call as it answered the first                                *)
(***************************************************************************)
InitTwice ==
    /\ unit = "twice"
    /\ argv = <<>>
    /\ pc = "resolve"
    /\ date_str \in {Strftime(dt) : dt \in Window}
    /\ pd_calls = <<date_str>> /\ run = 1
    /\ game_id = "" /\ attempt = 0
    /\ fh_calls = <<>>
    /\ \/ dir_exists = FALSE /\ files = {}
       \/ dir_exists = TRUE /\ files = {StaleFile}
    /\ InitCommon

\* the first call has returned: process_date is called again, lines 134-140;
\* the second has returned: the end
Twice_Again ==
    /\ unit = "twice" /\ pc = "loop"
    /\ \/ /\ run = 1
          /\ first' = [ret |-> pd_rets[Len(pd_rets)], files |-> files, dir_exists |-> dir_exists]
          /\ run' = 2
          /\ pd_calls' = Append(pd_calls, date_str)
          /\ game_ids' = <<>> /\ gi' = 0 /\ all_players' = <<>>
          /\ fh_calls' = <<>> /\ fh_rets' = <<>>
          /\ pd_wrote' = FALSE
          /\ ids_res' = NoOutcome
          /\ pc' = "resolve"
       \/ /\ run = 2
          /\ pc' = "exit"
          /\ UNCHANGED <<first, run, pd_calls, game_ids, gi, all_players, fh_calls, fh_rets,
                         pd_wrote, ids_res>>
    /\ UNCHANGED <<tape, unit, argv, mainVars, exit_status, exc, date_str, fetchVars, files,
                   dir_exists, sched, pd_rets, unslept>>

NextTwice ==
    \/ Twice_Again
    \/ PD_Resolve(Upstream(RunScheduleResponses))
    \/ PD_Pace
    \/ PD_Save
    \/ FH_Request(Upstream(RunHustleResponses))
    \/ FH_Backoff
    \/ FH_Extract

SpecTwice == InitTwice /\ [][NextTwice]_vars

(***************************************************************************)
(* What the properties speak of                                            *)
(***************************************************************************)
Last(q) == q[Len(q)]

\* the fetch_hustle call in hand has ended, by a return or by an exception
FetchEnded == Len(fh_calls) > 0 /\ Len(fh_rets) = Len(fh_calls)

\* the process_date call in hand has ended, by a return or by an exception
DateEnded == Len(pd_calls) > 0 /\ Len(pd_rets) = Len(pd_calls)

FailedAttempt(k) == k # "json"

\* the command line is refused before any date is processed
InvocationError ==
    \/ Len(argv) > 2
    \/ Len(argv) = 2 /\ ~(StrptimeOk(argv[1]) /\ StrptimeOk(argv[2]))

(***************************************************************************)
(* C1: when the attempts before the Nth fail and the Nth gets status 200   *)
(* with a body that parses, fetch_hustle returns the records extracted     *)
(* from that body; when all three attempts fail it returns the empty list. *)
(* Checked under SpecFetch.                                                *)
(***************************************************************************)
C1_RetriedFetchReturns ==
    (unit = "fetch_hustle" /\ FetchEnded) =>
        IF Last(fh_log) = "json"
        THEN /\ \A i \in 1..(Len(fh_log) - 1) : FailedAttempt(fh_log[i])
             /\ Last(fh_rets).kind = "return"
             /\ Last(fh_rets) = ExtractPlayers(data, game_id)
        ELSE /\ Len(fh_log) = 3
             /\ Last(fh_rets) = Return(<<>>)

(***************************************************************************)
(* C2: fetch_hustle never raises: whatever the answers, the call ends by   *)
(* returning a list.  Checked under SpecFetch.                             *)
(***************************************************************************)
C2_FetchNeverRaises ==
    (unit = "fetch_hustle" /\ FetchEnded) => Last(fh_rets).kind = "return"

(***************************************************************************)
(* C3: no error of the processing of a date leaves process_date: every     *)
(* call of process_date returns, and a run that processes dates ends at    *)
(* the tally with process_date called for every date.                      *)
(***************************************************************************)
C3_NoErrorLeavesProcessDate ==
    /\ \A i \in 1..Len(pd_rets) : pd_rets[i] \in {"true", "false"}
    /\ (pc = "exit" /\ ~InvocationError) => (pd_calls = dates /\ exc = "none")

(***************************************************************************)
(* C4: process_date writes the file of the date iff it returns true, and   *)
(* returns true iff a record was accumulated; with no identifier resolved  *)
(* it returns false, writes nothing and fetches nothing; with no record    *)
(* returned by any game it returns false and writes nothing.               *)
(***************************************************************************)
C4_FileIffTrueIffRecords ==
    DateEnded =>
        /\ pd_wrote <=> (Last(pd_rets) = "true")
        /\ (Last(pd_rets) = "true") <=> (all_players # <<>>)
        /\ ids_res = Return(<<>>) =>
               (Last(pd_rets) = "false" /\ ~pd_wrote /\ fh_calls = <<>>)
        /\ (/\ ids_res.kind = "return"
            /\ Len(fh_rets) = Len(ids_res.value)
            /\ \A i \in 1..Len(fh_rets) : fh_rets[i] = Return(<<>>))
               => (Last(pd_rets) = "false" /\ ~pd_wrote)

(***************************************************************************)
(* C5: the failure of the fetch of one game does not end the date:         *)
(* process_date calls fetch_hustle once for every identifier of the        *)
(* resolver, in its order, and what the games return is accumulated.       *)
(***************************************************************************)
RECURSIVE Concat(_)
Concat(rets) == IF rets = <<>> THEN <<>> ELSE Head(rets).value \o Concat(Tail(rets))

C5_EveryGameFetched ==
    (DateEnded /\ ids_res.kind = "return") =>
        /\ fh_calls = ids_res.value
        /\ Len(fh_rets) = Len(fh_calls)
        /\ (\A i \in 1..Len(fh_rets) : fh_rets[i].kind = "return")
               => all_players = Concat(fh_rets)

(***************************************************************************)
(* C6: the exit status is zero if some date's process_date returned true   *)
(* or no date was requested, and non-zero if dates were requested and      *)
(* every one failed.                                                       *)
(***************************************************************************)
C6_ExitStatus ==
    (pc = "exit" /\ unit = "main" /\ ~InvocationError) =>
        IF dates = <<>> \/ \E i \in 1..Len(pd_rets) : pd_rets[i] = "true"
        THEN exit_status = 0
        ELSE exit_status # 0

(***************************************************************************)
(* C7: one fetch_hustle call issues at most 3 requests, none after the     *)
(* first attempt that gets status 200 with a body that parses, and a new   *)
(* attempt only after a failed one.  fh_log holds one entry for each       *)
(* request of the call.  Checked under SpecFetch.                          *)
(***************************************************************************)
C7_AtMostThreeRequests ==
    unit = "fetch_hustle" =>
        /\ Len(fh_log) <= 3
        /\ \A i \in 1..(Len(fh_log) - 1) : FailedAttempt(fh_log[i])
        /\ pc = "request" => (fh_log = <<>> \/ FailedAttempt(Last(fh_log)))
        /\ pc = "request" => attempt = Len(fh_log) + 1
        /\ FetchEnded => pc = "exit"

\* the third attempt succeeded and the call has ended
C7_ThirdAttemptSucceeds ==
    /\ unit = "fetch_hustle" /\ FetchEnded
    /\ Len(fh_log) = 3 /\ Last(fh_log) = "json"
    /\ Last(fh_rets).kind = "return" /\ Last(fh_rets).value # <<>>

(***************************************************************************)
(* C8: fetch_game_ids never lets a failure out: whatever the answer of the *)
(* schedule source and whatever the date string, it returns a list, the    *)
(* empty one when the request or the parse failed.  Checked under          *)
(* SpecResolve.                                                            *)
(***************************************************************************)
C8_ResolverNeverRaises ==
    (unit = "fetch_game_ids" /\ pc = "exit") =>
        /\ ids_res.kind = "return"
        /\ sched.kind # "json" => ids_res = Return(<<>>)

(***************************************************************************)
(* C9: with two arguments start and end, main calls process_date once for  *)
(* every date from start to end, in calendar order, and for no other.      *)
(***************************************************************************)
C9_RangeProcessedInOrder ==
    (pc = "exit" /\ unit = "main" /\ Len(argv) = 2 /\ ~InvocationError) =>
        LET start == Strptime(argv[1])
            end == Strptime(argv[2])
        IN  IF DateLeq(start, end)
            THEN /\ pd_calls # <<>>
                 /\ pd_calls[1] = Strftime(start)
                 /\ Last(pd_calls) = Strftime(end)
                 /\ \A i \in 1..(Len(pd_calls) - 1) :
                        Strptime(pd_calls[i + 1]) = NextDay(Strptime(pd_calls[i]))
            ELSE pd_calls = <<>>

(***************************************************************************)
(* C10: for a payload that lists the requested date, fetch_game_ids        *)
(* returns the identifiers of the games of that date whose status is       *)
(* >= 2, in the listed order, leaving out the games with a status < 2 or   *)
(* with none; it returns the empty list when the date is not listed.       *)
(* The date is a padded YYYY-MM-DD of the window, an entry lists it when   *)
(* the date part of its gameDate is the month/day/year of that date, and   *)
(* the schedule has one entry for a date.  Checked under SpecResolve.      *)
(***************************************************************************)
Lists(entry, dt) ==
    /\ "gameDate" \in DOMAIN entry
    /\ Split(entry.gameDate, " ")[1] \in {USDate(dt), USDatePadded(dt)}

HasStatusAtLeast2(g) ==
    /\ "gameStatus" \in DOMAIN g
    /\ g.gameStatus.t = "num"
    /\ g.gameStatus.v >= 2

RECURSIVE QualifyingIds(_)
QualifyingIds(games) ==
    IF games = <<>> THEN <<>>
    ELSE (IF HasStatusAtLeast2(Head(games)) /\ "gameId" \in DOMAIN Head(games)
          THEN <<Head(games).gameId>> ELSE <<>>) \o QualifyingIds(Tail(games))

C10_QualifyingGamesInOrder ==
    (/\ unit = "fetch_game_ids" /\ pc = "exit"
     /\ sched.kind = "json" /\ sched.data.t = "obj"
     /\ "leagueSchedule" \in DOMAIN sched.data.v
     /\ "gameDates" \in DOMAIN sched.data.v.leagueSchedule
     /\ \E dt \in Window : date_str = Strftime(dt)) =>
        LET dt == CHOOSE x \in Window : date_str = Strftime(x)
            gds == sched.data.v.leagueSchedule.gameDates
            hits == {i \in 1..Len(gds) : Lists(gds[i], dt)}
        IN  /\ hits = {} => ids_res = Return(<<>>)
            /\ \A i \in hits :
                   hits = {i} =>
                       ids_res = Return(QualifyingIds(Get(gds[i], "games", <<>>)))

(***************************************************************************)
(* C11: pacing.  Every per-game fetch starts right after a sleep, in a run *)
(* over more than one date the loop of main is back at its head only after *)
(* a sleep, and two network requests (schedule or per-game, retries        *)
(* included) never follow each other without a sleep between them:         *)
(* unslept counts the requests issued since the last sleep.                *)
(***************************************************************************)
C11_RequestsPaced ==
    /\ unslept <= 1
    /\ (pc = "request" /\ fh_log = <<>>) => unslept = 0
    /\ (unit = "main" /\ pc = "loop" /\ di > 0 /\ Len(dates) > 1) => unslept = 0

\* the second date's schedule request has been issued after a first date
\* that ended with the requests of a game
C11_SecondDateAfterFetches ==
    /\ unit = "main" /\ Len(pd_calls) = 2 /\ pd_rets = <<"true">>
    /\ pc = "pace" /\ unslept = 1

(***************************************************************************)
(* C12: for every answer with status 200 whose body is well formed,        *)
(* fetch_hustle returns as many records as the player-stats result sets of *)
(* the body have rows, each with the queried identifier as its gameId; and *)
(* every record of the file process_date writes carries one of the         *)
(* identifiers resolved for the date.                                      *)
(***************************************************************************)
\* a body the extraction reads to its end: an object whose result sets have
\* a name and, when they are player statistics, headers and rows
WellFormed(body) ==
    /\ body.t = "obj"
    /\ LET rss == Get(body.v, "resultSets", <<>>) IN
       \A i \in 1..Len(rss) :
           /\ "name" \in DOMAIN rss[i]
           /\ rss[i].name = "PlayerStats" =>
                  {"headers", "rowSet"} \subseteq DOMAIN rss[i]

RECURSIVE PlayerStatsRows(_)
PlayerStatsRows(rss) ==
    IF rss = <<>> THEN 0
    ELSE (IF Head(rss).name = "PlayerStats" THEN Len(Head(rss).rowSet) ELSE 0)
             + PlayerStatsRows(Tail(rss))

\* the file of the date in hand
FileOf(ds) == CHOOSE f \in files : f.path = FilePath(ds)

Range(q) == {q[i] : i \in 1..Len(q)}

C12_RecordsCarryTheirGame ==
    /\ (FetchEnded /\ fh_log # <<>> /\ Last(fh_log) = "json" /\ WellFormed(data)) =>
           /\ Last(fh_rets).kind = "return"
           /\ Len(Last(fh_rets).value) = PlayerStatsRows(Get(data.v, "resultSets", <<>>))
           /\ \A i \in 1..Len(Last(fh_rets).value) :
                  Last(fh_rets).value[i].gameId = game_id
    /\ pd_wrote =>
           \A p \in Range(FileOf(date_str).content.players) : p.gameId \in Range(game_ids)

\* a file was written with the rows of two different games
C12_TwoGamesWritten ==
    /\ pd_wrote /\ game_ids = <<"G1", "G2">>
    /\ Len(FileOf(date_str).content.players) = 2 * MaxRows
    /\ {p.gameId : p \in Range(FileOf(date_str).content.players)} = {"G1", "G2"}

(***************************************************************************)
(* C13: missing-field tolerance.  For every row of a player-stats result   *)
(* set, a row shorter than the header list included, fetch_hustle returns  *)
(* a record and does not raise; a field of the record whose column the row *)
(* has holds the cell, and a field whose column is absent holds zero       *)
(* (person identifier and the ten counters) or the empty string (name,     *)
(* team and minutes).  Checked under SpecFetch.                            *)
(***************************************************************************)
\* the column each field of a record is read from
ColumnOf ==
    [personId |-> "PLAYER_ID", name |-> "PLAYER_NAME", team |-> "TEAM_ABBREVIATION",
     minutes |-> "MIN", deflections |-> "DEFLECTIONS",
     looseBalls |-> "LOOSE_BALLS_RECOVERED", contested2 |-> "CONTESTED_SHOTS_2PT",
     contested3 |-> "CONTESTED_SHOTS_3PT", contestedTotal |-> "CONTESTED_SHOTS",
     charges |-> "CHARGES_DRAWN", screenAst |-> "SCREEN_ASSISTS", boxOuts |-> "BOX_OUTS",
     boxOutsOff |-> "OFF_BOXOUTS", boxOutsDef |-> "DEF_BOXOUTS"]

\* what the statement says an absent column yields
StatedDefault(field) == IF field \in {"name", "team", "minutes"} THEN Str("") ELSE Num(0)

\* the cells of a row under the headers it reaches
Cells(headers, row) ==
    {<<headers[i], row[i]>> : i \in 1..(IF Len(headers) <= Len(row) THEN Len(headers) ELSE Len(row))}

\* rec is the record of the row, with the stated defaults
RecordOfRow(rec, headers, row) ==
    \A field \in DOMAIN ColumnOf :
        IF \E c \in Cells(headers, row) : c[1] = ColumnOf[field]
        THEN \E c \in Cells(headers, row) : c[1] = ColumnOf[field] /\ rec[field] = c[2]
        ELSE rec[field] = StatedDefault(field)

C13_MissingFieldsDefault ==
    (FetchEnded /\ fh_log # <<>> /\ Last(fh_log) = "json" /\ WellFormed(data)) =>
        /\ Last(fh_rets).kind = "return"
        /\ \A rs \in Range(Get(data.v, "resultSets", <<>>)) :
               rs.name = "PlayerStats" =>
                   \A row \in Range(rs.rowSet) :
                       \E rec \in Range(Last(fh_rets).value) :
                           RecordOfRow(rec, rs.headers, row)

(***************************************************************************)
(* C14: the players written for a date are the records of the games in the *)
(* order the games were fetched, which is the resolver's order, and the    *)
(* records of one game follow the rows of its response: the i-th record    *)
(* fetch_hustle returns is read from the i-th player-stats row.            *)
(***************************************************************************)
RECURSIVE PlayerStatsRowList(_)
\* the rows of the player-stats result sets, each with its headers, in order
PlayerStatsRowList(rss) ==
    IF rss = <<>> THEN <<>>
    ELSE (IF Head(rss).name = "PlayerStats"
          THEN [i \in 1..Len(Head(rss).rowSet) |->
                   [headers |-> Head(rss).headers, row |-> Head(rss).rowSet[i]]]
          ELSE <<>>) \o PlayerStatsRowList(Tail(rss))

\* rec holds the cells the row has
ReadFromRow(rec, headers, row) ==
    \A field \in DOMAIN ColumnOf :
        (\E c \in Cells(headers, row) : c[1] = ColumnOf[field]) =>
            \E c \in Cells(headers, row) : c[1] = ColumnOf[field] /\ rec[field] = c[2]

C14_GameOrderThenRowOrder ==
    /\ (FetchEnded /\ fh_log # <<>> /\ Last(fh_log) = "json" /\ WellFormed(data)) =>
           LET rows == PlayerStatsRowList(Get(data.v, "resultSets", <<>>))
               recs == Last(fh_rets).value
           IN  /\ Len(recs) = Len(rows)
               /\ \A i \in 1..Len(rows) : ReadFromRow(recs[i], rows[i].headers, rows[i].row)
    /\ pd_wrote =>
           /\ fh_calls = game_ids
           /\ \A i \in 1..Len(fh_rets) :
                  \A j \in 1..Len(fh_rets[i].value) : fh_rets[i].value[j].gameId = game_ids[i]
           /\ FileOf(date_str).content.players = Concat(fh_rets)

\* the resolver listed G2 before G1, both games returned rows, and the file
\* was written
C14_SecondListedFirst ==
    /\ pd_wrote /\ game_ids = <<"G2", "G1">>
    /\ Len(fh_rets) = 2 /\ Len(fh_rets[1].value) > 1 /\ Len(fh_rets[2].value) > 1
    /\ FileOf(date_str).content.players[1].gameId = "G2"

(***************************************************************************)
(* C15: the games value of the file written for a date is the number of    *)
(* identifiers the resolver returned for that date, the games whose fetch  *)
(* returned no record included; it is therefore at least the number of     *)
(* distinct gameId values among the players written.                       *)
(***************************************************************************)
C15_GamesCountsResolved ==
    pd_wrote =>
        LET doc == FileOf(date_str).content IN
        /\ ids_res.kind = "return"
        /\ doc.games = Len(ids_res.value)
        /\ doc.games >= Cardinality({p.gameId : p \in Range(doc.players)})

\* two identifiers were resolved, the fetch of one returned no record, and the
\* file was written
C15_OneGameWithoutRecords ==
    /\ pd_wrote /\ Len(game_ids) = 2 /\ game_ids[1] # game_ids[2]
    /\ \E i \in 1..Len(fh_rets) : fh_rets[i] = Return(<<>>)
    /\ FileOf(date_str).content.games = 2

(***************************************************************************)
(* C16: the backoff of one fetch_hustle call grows with the attempt        *)
(* number.  The wait after failed attempt k, k < 3, is 3*k seconds, so the *)
(* wait before attempt 3 is longer than the wait before attempt 2; a wait  *)
(* follows failed attempts only, and none follows the last failed attempt  *)
(* or a successful one.  waits holds the waits of the call, in order.      *)
(* Checked under SpecFetch.                                                *)
(***************************************************************************)
C16_BackoffGrows ==
    unit = "fetch_hustle" =>
        /\ Len(waits) <= 2
        /\ \A k \in 1..Len(waits) : waits[k] = 3 * k /\ FailedAttempt(fh_log[k])
        /\ \A k \in 1..(Len(waits) - 1) : waits[k + 1] > waits[k]
        /\ pc = "request" => Len(waits) = Len(fh_log)
        /\ FetchEnded => Len(waits) = Len(fh_log) - 1

\* all three attempts failed: two waits, the second the longer
C16_TwoWaits ==
    /\ unit = "fetch_hustle" /\ FetchEnded
    /\ Len(fh_log) = 3 /\ FailedAttempt(Last(fh_log))
    /\ waits = <<3, 6>>

(***************************************************************************)
(* C17: process_date is idempotent.  Called twice for one date against an  *)
(* upstream that answers the second call as it answered the first, the     *)
(* second call makes the same requests and returns what the first          *)
(* returned, and it leaves the output directory as the first left it: the  *)
(* file of the date is overwritten with the same content, nothing is       *)
(* merged or appended, and no second file appears.  A date whose calls     *)
(* return true has exactly one file.  Checked under SpecTwice.             *)
(***************************************************************************)
C17_SecondRunChangesNothing ==
    /\ \A f \in files : \A g \in files : f.path = g.path => f = g
    /\ (unit = "twice" /\ run = 2 /\ Len(pd_rets) = 2) =>
           /\ pd_rets[2] = pd_rets[1]
           /\ first.ret = pd_rets[1]
           /\ tape = <<>>
           /\ files = first.files /\ dir_exists = first.dir_exists
           /\ pd_rets[1] = "true" =>
                  /\ pd_wrote
                  /\ Cardinality({f \in files : f.path = FilePath(date_str)}) = 1
                  /\ FileOf(date_str).content = DateResult(date_str, game_ids, all_players)

\* both calls returned true over a directory that held an older file of the
\* date: the one file of the date is the new one
C17_OverwrittenTwice ==
    /\ unit = "twice" /\ run = 2 /\ pd_rets = <<"true", "true">>
    /\ date_str = Strftime(FirstDate)
    /\ StaleFile \notin files
    /\ Cardinality(files) = 1

(***************************************************************************)
(* C18: a call of process_date that returns false leaves the output        *)
(* directory as it found it: it neither makes the directory nor deletes or *)
(* changes a file, so the file an earlier run wrote for the date stays.    *)
(* The directory and its files change in one step only, the one in which   *)
(* process_date writes the file of its date and returns true.              *)
(***************************************************************************)
C18_FalseLeavesDirectory ==
    [][(files' # files \/ dir_exists' # dir_exists) =>
           /\ Len(pd_rets') = Len(pd_rets) + 1
           /\ pd_rets'[Len(pd_rets')] = "true"
           /\ \A f \in files : f.path # FilePath(date_str) => f \in files'
           /\ \A f \in files' : f.path # FilePath(date_str) => f \in files]_vars

\* the games of a date whose file an earlier run wrote returned no record:
\* process_date returned false and the older file is still there
C18_StaleFileStays ==
    /\ unit = "main" /\ DateEnded /\ Last(pd_rets) = "false"
    /\ date_str = Strftime(FirstDate) /\ fh_calls # <<>>
    /\ StaleFile \in files

(***************************************************************************)
(* C19: in fetch_hustle an answer with status 200 whose body does not      *)
(* parse as JSON is a failed attempt like an answer with another status:   *)
(* it uses up one of the 3 attempts, before the third attempt it is        *)
(* followed by the backoff of its attempt number and by the next request,  *)
(* and as the third it ends the call with the empty list; three such       *)
(* answers in a row make the call return the empty list.  Checked under    *)
(* SpecFetch.                                                              *)
(***************************************************************************)
\* the call is where a failed attempt leaves it, the last answer being of
\* this kind
TreatedAsFailure(kind) ==
    (fh_log # <<>> /\ Last(fh_log) = kind) =>
        LET k == Len(fh_log) IN
        /\ k <= 3
        /\ k < 3 =>
               \/ pc = "backoff" /\ attempt = k /\ Len(waits) = k - 1 /\ ~FetchEnded
               \/ /\ pc = "request" /\ attempt = k + 1 /\ ~FetchEnded
                  /\ Len(waits) = k /\ waits[k] = 3 * k
        /\ k = 3 => (pc = "exit" /\ FetchEnded /\ Last(fh_rets) = Return(<<>>))

C19_BadJsonIsFailedAttempt ==
    unit = "fetch_hustle" =>
        /\ TreatedAsFailure("bad_json")
        /\ TreatedAsFailure("status")

\* three answers with status 200 and a body that does not parse
C19_ThreeBadBodies ==
    /\ unit = "fetch_hustle"
    /\ fh_log = <<"bad_json", "bad_json", "bad_json">>
    /\ waits = <<3, 6>>
    /\ Last(fh_rets) = Return(<<>>)

====
